---- MODULE Spec2Model ----
(***************************************************************************)
(* Pollify: polls, votes and the tally.                                    *)
(*                                                                         *)
(* The store is the Prisma schema of the migration (tables Poll and Vote,  *)
(* foreign key Vote.pollId -> Poll.id ON DELETE RESTRICT, no uniqueness    *)
(* constraint on (pollId, userId)).  Every request runs in a slot; a       *)
(* handler that awaits several storage round-trips is one action per       *)
(* round-trip, so that requests interleave exactly at their awaits.  The   *)
(* identity lookup and the schema validation of a handler touch no stored  *)
(* row and are part of the action that starts the call.                    *)
(***************************************************************************)
EXTENDS Integers, Sequences, FiniteSets, TLC

(* ---------------------------- bounds ----------------------------------- *)
MaxPolls == 1      \* polls ever created
MaxVotes == 2      \* vote rows ever created
MaxTallyVotes == 3 \* longest vote list given to the tally on its own
MaxIdentities == 3 \* accounts the identity provider ever creates

(* ---------------------------- inputs ----------------------------------- *)
Users == {"u1", "u2"}
NoUser == "anonymous"                 \* getCurrentUser() returned null
Callers == Users \cup {NoUser}
Reqs == {"r1", "r2"}                  \* requests that can be in flight together
EmptyId == 0                          \* the empty string as a poll id
PollIds == 1..MaxPolls
PollIdInputs == 0..MaxPolls
PollCreators == {"u1", NoUser}        \* the callers of createPoll
\* the form data given to createPoll and updatePoll: two valid forms, and
\* one form for each rule of the schema that can fail
PollForms ==
  {[question |-> "Q1", options |-> <<"A", "B">>],
   [question |-> "Q2", options |-> <<"A", "C">>],
   [question |-> "", options |-> <<"A", "B">>],
   [question |-> "Q1", options |-> <<"A", "A">>],
   [question |-> "Q1", options |-> <<"A", "">>],
   [question |-> "Q1", options |-> <<"A">>]}
\* the options submitted in votes: "B" is an option of the first form only
VoteChoices == {"B", ""}
\* a request body without a selectedOption
NoOption == "undefined"
\* a request body that is not JSON
BadJson == "not json"
VoteBodies == VoteChoices \cup {NoOption, BadJson}
\* sign-up forms: two valid e-mail addresses and one that is none, a password
\* of six characters and one that is shorter
Emails == {"a@x.io", "b@x.io", "a.x.io"}
Passwords == {"secret", "12345"}
\* what supabase.auth.signUp does: it rejects, resolves with an error,
\* resolves with the new user, or resolves without a user record
SignUpOutcomes == {"throws", "error", "user", "nouser"}
\* no signup in flight
NoSignup == [pc |-> "idle"]
MaxServedVotes == 3
ShownOptions == {"A", "B"}
Undefined == "undefined"
TallyOptionLists == {<<"Red", "Blue", "Green">>, <<"Red", "Blue">>, <<"Blue", "Blue">>}
TallyChoices == {"Red", "Blue", "Green", "Yellow"}

VARIABLES
  polls,        \* table Poll: id -> [question, options, creatorId]
  votes,        \* table Vote: rows [id, pollId, userId, selectedOption], oldest first
  nextPollId,   \* ids handed out so far, polls
  nextVoteId,   \* ids handed out so far, votes
  req,          \* the calls in flight: inputs, position, locals
  last,         \* the call that returned last: inputs and result
  succeeded,    \* history: <<user, poll>> of vote submissions that returned success
  removed,      \* history: <<user, poll>> of removeVote calls that returned success
  tOptions,     \* tally on its own: the options given
  tVotes,       \* tally on its own: the votes given
  tOut,         \* tally on its own: the result, or NoTally
  tGet,         \* tally on its own: the result of GET /api/polls/{id}, or NoTally
  tStats,       \* tally on its own: the result of getVoteStatistics, or NoTally
  identities,   \* the accounts of the identity provider: [id, email]
  users,        \* table User: the rows [id, email] written by signup
  su,           \* the signup in flight, or NoSignup
  pollVoting,   \* the PollVoting component: its props and its state
  served        \* the tally the server holds for the poll shown: counts, total

vars == <<polls, votes, nextPollId, nextVoteId, req, last, succeeded, removed,
          tOptions, tVotes, tOut, tGet, tStats, identities, users, su, pollVoting, served>>
store == <<polls, votes, nextPollId, nextVoteId>>
tallyVars == <<tOptions, tVotes, tOut, tGet, tStats>>
authVars == <<identities, users, su>>
uiVars == <<pollVoting, served>>

(* ------------------------- pure helpers -------------------------------- *)
Range(s) == {s[i] : i \in DOMAIN s}

\* z.string().min(1)
StrMin1(s) == s # ""

\* await req.json() rejects, outside the handler's try block
JsonThrows(body) == body = BadJson

\* the body schema of POST /api/polls/{id}/vote: selectedOption is a string
postVoteSchema(selectedOption) == selectedOption # NoOption

\* submitVoteSchema: pollId, selectedOption and userId are non-empty strings
submitVoteSchemaNone(pollId, selectedOption, userId) == TRUE
submitVoteSchema(pollId, selectedOption, userId) ==
  /\ pollId # EmptyId
  /\ StrMin1(selectedOption)
  /\ StrMin1(userId)

\* pollFormSchema: question non-empty, 2..10 non-empty options, all distinct
pollFormSchema(question, options) ==
  /\ StrMin1(question)
  /\ \A i \in DOMAIN options : StrMin1(options[i])
  /\ Len(options) >= 2
  /\ Len(options) <= 10
  /\ Cardinality(Range(options)) = Len(options)

\* updatePollSchema applied to the raw form data of updatePoll: both fields
\* are present in rawData, so the optional() never applies
updatePollSchema(question, options) ==
  /\ StrMin1(question)
  /\ \A i \in DOMAIN options : StrMin1(options[i])
  /\ Len(options) >= 2
  /\ Len(options) <= 10
  /\ Cardinality(Range(options)) = Len(options)

\* options.includes(selectedOption)
OptionsIncludeAlways(options, selectedOption) == TRUE
OptionsInclude(options, selectedOption) ==
  \E i \in DOMAIN options : options[i] = selectedOption

\* prisma.vote.findFirst({ where: { pollId, userId } }): the matching rows;
\* no orderBy, so any of them may be the one returned
FindFirstVoteNone(pollId, userId) == {}
FindFirstVote(pollId, userId) ==
  {i \in DOMAIN votes : votes[i].pollId = pollId /\ votes[i].userId = userId}

\* the rows of prisma.poll.findUnique({ include: { votes: true } })
\* hasUserVoted: false without identity, on a storage failure, or when
\* prisma.vote.findFirst finds no row
hasUserVoted(pollId, user, fail) ==
  ~fail /\ user # NoUser /\ FindFirstVote(pollId, user) # {}

\* getUserVote returned null
Null == "null"

\* getUserVote: vote?.selectedOption || null; the values it can return, one
\* for each row prisma.vote.findFirst can pick
getUserVote(pollId, user, fail) ==
  IF fail \/ user = NoUser \/ FindFirstVote(pollId, user) = {}
  THEN {Null}
  ELSE {IF votes[i].selectedOption = "" THEN Null ELSE votes[i].selectedOption :
          i \in FindFirstVote(pollId, user)}

VotesOf(pollId) == SelectSeq(votes, LAMBDA v : v.pollId = pollId)

\* data of prisma.vote.create
NewVoteFirstOption(id, pollId, userId, selectedOption) ==
  [id |-> id, pollId |-> pollId, userId |-> userId,
   selectedOption |-> polls[pollId].options[1]]
NewVote(id, pollId, userId, selectedOption) ==
  [id |-> id, pollId |-> pollId, userId |-> userId,
   selectedOption |-> selectedOption]

\* prisma.vote.create rejects: storage failure, or Vote_pollId_fkey
VoteCreateThrowsOnFailureOnly(row, fail) == fail
VoteCreateThrows(row, fail) == fail \/ row.pollId \notin DOMAIN polls

\* the Vote table after prisma.vote.create
VotesAfterCreateNoRollback(row, throws) == Append(votes, row)
VotesAfterCreate(row, throws) == IF throws THEN votes ELSE Append(votes, row)

\* the Vote table without the row of the given id
WithoutOldestVote(id) == Tail(votes)
WithoutVote(id) == SelectSeq(votes, LAMBDA v : v.id # id)

(* ----------------------------- tally ----------------------------------- *)
NoTally == [found |-> FALSE]

\* options.reduce((acc, option) => { acc[option] = 0; return acc }, {})
RECURSIVE ReduceOptions(_, _)
ReduceOptions(options, acc) ==
  IF options = <<>> THEN acc
  ELSE ReduceOptions(Tail(options), (Head(options) :> 0) @@ acc)

\* votes.forEach(vote => { if (voteCounts.hasOwnProperty(vote.selectedOption))
\*                           voteCounts[vote.selectedOption]++ })
RECURSIVE ForEachVoteNoGuard(_, _)
ForEachVoteNoGuard(vs, acc) ==
  IF vs = <<>> THEN acc
  ELSE LET o == Head(vs).selectedOption IN
       ForEachVoteNoGuard(Tail(vs),
         IF o \in DOMAIN acc THEN [acc EXCEPT ![o] = @ + 1]
         ELSE (o :> 1) @@ acc)
RECURSIVE ForEachVote(_, _)
ForEachVote(vs, acc) ==
  IF vs = <<>> THEN acc
  ELSE LET o == Head(vs).selectedOption IN
       ForEachVote(Tail(vs),
         IF o \in DOMAIN acc THEN [acc EXCEPT ![o] = @ + 1] ELSE acc)

\* voteCounts and totalVotes of getPollWithVotes, from the poll's options
\* and the poll's vote rows
Tally(options, vs) ==
  [found |-> TRUE,
   voteCounts |-> ForEachVote(vs, ReduceOptions(options, <<>>)),
   totalVotes |-> Len(vs)]

\* getPollWithVotes(id): null when the poll is not stored
getPollWithVotes(id) ==
  IF id \notin DOMAIN polls THEN NoTally
  ELSE Tally(polls[id].options, VotesOf(id))

\* voteCounts and totalVotes of GET /api/polls/{id}: the same reduce and
\* forEach as getPollWithVotes
GET_tally(options, vs) ==
  [found |-> TRUE,
   voteCounts |-> ForEachVote(vs, ReduceOptions(options, <<>>)),
   totalVotes |-> Len(vs)]

\* options.forEach(option => { votesPerOption[option] = 0 })
RECURSIVE ForEachOption(_, _)
ForEachOption(options, votesPerOption) ==
  IF options = <<>> THEN votesPerOption
  ELSE ForEachOption(Tail(options),
         [o \in DOMAIN votesPerOption \cup {Head(options)} |->
            IF o = Head(options) THEN 0 ELSE votesPerOption[o]])

\* votesPerOption and totalVotes of getVoteStatistics for a stored poll, from
\* the poll's options and the rows of prisma.vote.findMany
VoteStatisticsCountedOnly(options, vs) ==
  LET votesPerOption == ForEachVote(vs, ForEachOption(options, <<>>))
  IN [found |-> TRUE,
      votesPerOption |-> votesPerOption,
      totalVotes |-> Len(SelectSeq(vs,
                       LAMBDA v : v.selectedOption \in DOMAIN votesPerOption))]
VoteStatistics(options, vs) ==
  [found |-> TRUE,
   votesPerOption |-> ForEachVote(vs, ForEachOption(options, <<>>)),
   totalVotes |-> Len(vs)]

RECURSIVE SumOver(_, _)
SumOver(f, keys) ==
  IF keys = {} THEN 0
  ELSE LET k == CHOOSE x \in keys : TRUE IN f[k] + SumOver(f, keys \ {k})
SumCounts(f) == SumOver(f, DOMAIN f)

(* ------------------------ calls and results ---------------------------- *)
VoteOps == {"submitVote", "POST_vote"}

\* a slot with no call in flight
Idle == [op |-> "none", pc |-> "idle", user |-> NoUser, pollId |-> EmptyId,
         option |-> "", voteId |-> 0, afterSuccess |-> FALSE, peer |-> "none"]

\* nothing has returned yet
NoResult == [op |-> "none", user |-> NoUser, pollId |-> EmptyId, option |-> "",
             result |-> "none", at |-> "idle", afterSuccess |-> FALSE,
             peer |-> "none"]

Free(r) == req[r].pc = "idle"

\* a call is issued once the caller has seen the result of the previous one,
\* and runs in the first free slot
Ready == last = NoResult
FirstFree(r) == Free(r) /\ \A s \in Reqs : Free(s) => (r = "r1" \/ s # "r1")

\* the record of a returned call: its inputs, its result and the storage
\* call it returned from ("idle": before the first one)
Result(call, result) ==
  [op |-> call.op, user |-> call.user, pollId |-> call.pollId,
   option |-> call.option, result |-> result, at |-> call.pc,
   afterSuccess |-> call.afterSuccess, peer |-> call.peer]

\* the status codes of POST /api/polls/{id}/vote (500 also for a fault that
\* leaves the handler uncaught); server actions have none
HttpStatus(op, result) ==
  IF op # "POST_vote" THEN 0
  ELSE CASE result = "Success" -> 201
         [] result = "Unauthorized" -> 401
         [] result = "InvalidData" -> 400
         [] result = "NotFound" -> 404
         [] result = "InvalidOption" -> 400
         [] result = "AlreadyVoted" -> 409
         [] OTHER -> 500

\* the call in slot r returns; a vote submission that got as far as the
\* duplicate check tells the submissions of the same user on the same poll
\* that are still in flight how it ended, unless it was itself issued after
\* a success of that user on that poll (a success is not forgotten)
Return(r, result) ==
  /\ last' = Result(req[r], result)
  /\ req' = [s \in Reqs |->
       IF s = r THEN Idle
       ELSE IF /\ req[r].op \in VoteOps
               /\ ~req[r].afterSuccess
               /\ result \in {"Success", "AlreadyVoted"}
               /\ req[s].op \in VoteOps
               /\ req[s].user = req[r].user
               /\ req[s].pollId = req[r].pollId
               /\ req[s].peer # "Success"
            THEN [req[s] EXCEPT !.peer = result]
            ELSE req[s]]

\* the call in slot r moves on to its next storage call
Goto(r, pc) == /\ req' = [req EXCEPT ![r].pc = pc]
               /\ UNCHANGED last

\* the tally of a poll nobody has voted on
NoVotesYet == [voteCounts |-> [o \in ShownOptions |-> 0], totalVotes |-> 0]

\* the component as mounted: props from the page, state from useState
PollVoting(tally, initialHasVoted, initialUserVote) ==
  [voteCounts |-> tally.voteCounts,
   totalVotes |-> tally.totalVotes,
   selectedOption |-> Null,
   hasVoted |-> initialHasVoted,
   userVote |-> initialUserVote,
   isPending |-> FALSE,
   optimisticVoteCounts |-> tally.voteCounts,
   optimisticTotalVotes |-> tally.totalVotes]

\* the tally after one more vote for option o
OneMoreVote(tally, o) ==
  [voteCounts |-> [tally.voteCounts EXCEPT ![o] = @ + 1],
   totalVotes |-> tally.totalVotes + 1]

\* the page renders again: the component gets new props and keeps its state
Rendered(c, tally) ==
  [c EXCEPT !.voteCounts = tally.voteCounts, !.totalVotes = tally.totalVotes]

Init ==
  /\ polls = <<>>
  /\ votes = <<>>
  /\ nextPollId = 1
  /\ nextVoteId = 1
  /\ req = [r \in Reqs |-> Idle]
  /\ last = NoResult
  /\ succeeded = {}
  /\ removed = {}
  /\ tOptions = <<>>
  /\ tVotes = <<>>
  /\ tOut = NoTally
  /\ tGet = NoTally
  /\ tStats = NoTally
  /\ identities = {}
  /\ users = {}
  /\ su = NoSignup
  /\ served = NoVotesYet
  /\ pollVoting = PollVoting(served, FALSE, Undefined)

(* ------------------- vote submission: the call ------------------------- *)
\* what a vote submission remembers of the moment it was issued
VoteCall(op, user, pollId, selectedOption) ==
  [Idle EXCEPT !.op = op, !.user = user, !.pollId = pollId,
               !.option = selectedOption,
               !.afterSuccess = (<<user, pollId>> \in succeeded)]

\* submitVote, up to its first storage call: getCurrentUser, validateSchema
submitVote_call(r, user, pollId, selectedOption) ==
  /\ Ready /\ FirstFree(r)
  /\ LET call == VoteCall("submitVote", user, pollId, selectedOption) IN
       IF user = NoUser
       THEN last' = Result(call, "Unauthorized") /\ UNCHANGED req
       ELSE IF ~submitVoteSchema(pollId, selectedOption, user)
       THEN last' = Result(call, "InvalidData") /\ UNCHANGED req
       ELSE req' = [req EXCEPT ![r] = [call EXCEPT !.pc = "findPoll"]]
            /\ UNCHANGED last
  /\ UNCHANGED <<store, succeeded, removed, tallyVars, authVars, uiVars>>

\* POST /api/polls/{id}/vote, up to its first storage call: auth.getUser and
\* z.object({ selectedOption: z.string() }); hasOption is false for a body
\* without a string selectedOption
POST_vote_call(r, user, pollId, selectedOption) ==
  /\ Ready /\ FirstFree(r)
  /\ LET call == VoteCall("POST_vote", user, pollId, selectedOption) IN
       IF user = NoUser
       THEN last' = Result(call, "Unauthorized") /\ UNCHANGED req
       ELSE IF JsonThrows(selectedOption)
       THEN last' = Result(call, "Fault") /\ UNCHANGED req
       ELSE IF ~postVoteSchema(selectedOption)
       THEN last' = Result(call, "InvalidData") /\ UNCHANGED req
       ELSE req' = [req EXCEPT ![r] = [call EXCEPT !.pc = "findPoll"]]
            /\ UNCHANGED last
  /\ UNCHANGED <<store, succeeded, removed, tallyVars, authVars, uiVars>>

(* --------------- vote submission: the storage round-trips -------------- *)
\* prisma.poll.findUnique and the option check
submitVote_findPoll(r, fail) ==
  /\ Ready /\ req[r].pc = "findPoll"
  /\ IF fail THEN Return(r, "ServerError")
     ELSE IF req[r].pollId \notin DOMAIN polls THEN Return(r, "NotFound")
     ELSE IF ~OptionsInclude(polls[req[r].pollId].options, req[r].option)
     THEN Return(r, "InvalidOption")
     ELSE Goto(r, "findVote")
  /\ UNCHANGED <<store, succeeded, removed, tallyVars, authVars, uiVars>>

\* prisma.vote.findFirst and the already-voted check
submitVote_findVote(r, fail) ==
  /\ Ready /\ req[r].pc = "findVote"
  /\ IF fail THEN Return(r, "ServerError")
     ELSE IF FindFirstVote(req[r].pollId, req[r].user) # {}
     THEN Return(r, "AlreadyVoted")
     ELSE Goto(r, "create")
  /\ UNCHANGED <<store, succeeded, removed, tallyVars, authVars, uiVars>>

\* prisma.vote.create and the success result
submitVote_create(r, fail) ==
  /\ Ready /\ req[r].pc = "create"
  /\ nextVoteId <= MaxVotes
  /\ LET row == NewVote(nextVoteId, req[r].pollId, req[r].user, req[r].option)
         throws == VoteCreateThrows(row, fail)
     IN /\ votes' = VotesAfterCreate(row, throws)
        /\ nextVoteId' = IF throws THEN nextVoteId ELSE nextVoteId + 1
        /\ Return(r, IF throws THEN "ServerError" ELSE "Success")
        /\ succeeded' = IF throws THEN succeeded
                        ELSE succeeded \cup {<<req[r].user, req[r].pollId>>}
  /\ UNCHANGED <<polls, nextPollId, removed, tallyVars, authVars, uiVars>>

(* ----------------------------- removeVote ------------------------------ *)
RemoveCall(user, pollId) ==
  [Idle EXCEPT !.op = "removeVote", !.user = user, !.pollId = pollId]

\* removeVote, up to its first storage call: getCurrentUser
removeVote_call(r, user, pollId) ==
  /\ Ready /\ FirstFree(r)
  /\ IF user = NoUser
     THEN last' = Result(RemoveCall(user, pollId), "Unauthorized")
          /\ UNCHANGED req
     ELSE req' = [req EXCEPT ![r] = [RemoveCall(user, pollId) EXCEPT !.pc = "rmFind"]]
          /\ UNCHANGED last
  /\ UNCHANGED <<store, succeeded, removed, tallyVars, authVars, uiVars>>

\* prisma.vote.findFirst: existingVote
removeVote_find(r, fail) ==
  /\ Ready /\ req[r].pc = "rmFind"
  /\ LET found == FindFirstVote(req[r].pollId, req[r].user) IN
       \/ fail /\ Return(r, "ServerError")
       \/ ~fail /\ found = {} /\ Return(r, "NoVote")
       \/ /\ ~fail
          /\ \E i \in found :
               req' = [req EXCEPT ![r].pc = "rmDelete", ![r].voteId = votes[i].id]
          /\ UNCHANGED last
  /\ UNCHANGED <<store, succeeded, removed, tallyVars, authVars, uiVars>>

\* prisma.vote.delete({ where: { id: existingVote.id } }): throws when the
\* row is gone
removeVote_delete(r, fail) ==
  /\ Ready /\ req[r].pc = "rmDelete"
  /\ LET throws == fail \/ ~(\E i \in DOMAIN votes : votes[i].id = req[r].voteId)
     IN /\ votes' = IF throws THEN votes ELSE WithoutVote(req[r].voteId)
        /\ removed' = IF throws THEN removed
                      ELSE removed \cup {<<req[r].user, req[r].pollId>>}
        /\ Return(r, IF throws THEN "ServerError" ELSE "Success")
  /\ UNCHANGED <<polls, nextPollId, nextVoteId, succeeded, tallyVars, authVars, uiVars>>

(* ------------------------------- polls --------------------------------- *)
PollCall(op, user, pollId) ==
  [Idle EXCEPT !.op = op, !.user = user, !.pollId = pollId]

\* where: { id, creatorId: user.id } matches a row
PollOwnedByAnyone(id, user) == id \in DOMAIN polls
PollOwnedBy(id, user) == id \in DOMAIN polls /\ polls[id].creatorId = user

\* the row of prisma.poll.create: the form data and creatorId: user.id
\* (createdAt, DEFAULT CURRENT_TIMESTAMP, is the number of the creation)
NewPollOfOtherUser(question, options, user) ==
  [question |-> question, options |-> options,
   creatorId |-> CHOOSE u \in Users : u # user, createdAt |-> nextPollId]
NewPoll(question, options, user) ==
  [question |-> question, options |-> options, creatorId |-> user,
   createdAt |-> nextPollId]

\* the row after prisma.poll.update with data: { question, options }
PollAfterUpdateAsNew(poll, question, options) ==
  [question |-> question, options |-> options, creatorId |-> poll.creatorId,
   createdAt |-> nextPollId]
PollAfterUpdate(poll, question, options) ==
  [poll EXCEPT !.question = question, !.options = options]

\* createPoll: getCurrentUser, pollFormSchema, prisma.poll.create
createPoll(user, question, options, fail) ==
  /\ Ready
  /\ nextPollId <= MaxPolls
  /\ LET result == IF user = NoUser THEN "Unauthorized"
                   ELSE IF ~pollFormSchema(question, options) THEN "ValidationErrors"
                   ELSE IF fail THEN "ServerError"
                   ELSE "Success"
     IN /\ last' = Result(PollCall("createPoll", user, nextPollId), result)
        /\ IF result = "Success"
           THEN /\ polls' = (nextPollId :> NewPoll(question, options, user)) @@ polls
                /\ nextPollId' = nextPollId + 1
           ELSE UNCHANGED <<polls, nextPollId>>
  /\ UNCHANGED <<votes, nextVoteId, req, succeeded, removed, tallyVars, authVars, uiVars>>

\* updatePoll: getCurrentUser, updatePollSchema, prisma.poll.update, then
\* redirect(), which throws inside the try block: the catch returns the
\* server-error FormState also after the row was updated
updatePoll(user, id, question, options, fail) ==
  /\ Ready
  /\ LET result == IF user = NoUser THEN "Unauthorized"
                   ELSE IF ~updatePollSchema(question, options) THEN "ValidationErrors"
                   ELSE "ServerError"
         applied == /\ user # NoUser
                    /\ updatePollSchema(question, options)
                    /\ ~fail
                    /\ PollOwnedBy(id, user)
     IN /\ last' = Result(PollCall("updatePoll", user, id), result)
        /\ polls' = IF applied
                    THEN [polls EXCEPT ![id] = PollAfterUpdate(polls[id], question,
                                                            options)]
                    ELSE polls
  /\ UNCHANGED <<votes, nextPollId, nextVoteId, req, succeeded, removed, tallyVars, authVars, uiVars>>

\* prisma.poll.delete({ where: { id, creatorId } }) rejects: storage failure,
\* no such row, or a Vote row still references the poll (Vote_pollId_fkey
\* is ON DELETE RESTRICT)
PollDeleteThrows(id, user, fail) ==
  fail \/ ~PollOwnedBy(id, user) \/ VotesOf(id) # <<>>

\* deletePoll: getCurrentUser, prisma.poll.delete
deletePoll(user, id, fail) ==
  /\ Ready
  /\ LET result == IF user = NoUser THEN "Unauthorized"
                   ELSE IF PollDeleteThrows(id, user, fail) THEN "ServerError"
                   ELSE "Success"
     IN /\ last' = Result(PollCall("deletePoll", user, id), result)
        /\ polls' = IF result = "Success"
                    THEN [k \in DOMAIN polls \ {id} |-> polls[k]]
                    ELSE polls
  /\ UNCHANGED <<votes, nextPollId, nextVoteId, req, succeeded, removed, tallyVars, authVars, uiVars>>

(* --------------------------- polls: API routes ------------------------- *)
\* the body schema of POST /api/polls and PUT /api/polls/{id}: a non-empty
\* question and at least two options, which may be empty or repeated
apiPollSchema(question, options) == StrMin1(question) /\ Len(options) >= 2

\* POST /api/polls: auth.getUser, schema.safeParse, prisma.poll.create
POST_polls(user, question, options, fail) ==
  /\ Ready
  /\ nextPollId <= MaxPolls
  /\ LET result == IF user = NoUser THEN "Unauthorized"
                   ELSE IF ~apiPollSchema(question, options) THEN "ValidationErrors"
                   ELSE IF fail THEN "ServerError"
                   ELSE "Success"
     IN /\ last' = Result(PollCall("POST_polls", user, nextPollId), result)
        /\ IF result = "Success"
           THEN /\ polls' = (nextPollId :> NewPoll(question, options, user)) @@ polls
                /\ nextPollId' = nextPollId + 1
           ELSE UNCHANGED <<polls, nextPollId>>
  /\ UNCHANGED <<votes, nextVoteId, req, succeeded, removed, tallyVars, authVars, uiVars>>

\* createPoll of lib/actions.ts: auth.getUser, schema.parse outside the try
\* block (a ZodError leaves the action uncaught), prisma.poll.create
createPoll_legacy(user, question, options, fail) ==
  /\ Ready
  /\ nextPollId <= MaxPolls
  /\ LET result == IF user = NoUser THEN "Unauthorized"
                   ELSE IF ~apiPollSchema(question, options) THEN "Fault"
                   ELSE IF fail THEN "ServerError"
                   ELSE "Success"
     IN /\ last' = Result(PollCall("createPoll_legacy", user, nextPollId), result)
        /\ IF result = "Success"
           THEN /\ polls' = (nextPollId :> NewPoll(question, options, user)) @@ polls
                /\ nextPollId' = nextPollId + 1
           ELSE UNCHANGED <<polls, nextPollId>>
  /\ UNCHANGED <<votes, nextVoteId, req, succeeded, removed, tallyVars, authVars, uiVars>>

\* the status codes of GET, PUT and DELETE /api/polls/{id}
PollRouteStatus(op, result) ==
  CASE result = "Success" -> 200
    [] result = "Unauthorized" -> 401
    [] result = "ValidationErrors" -> 400
    [] result = "NotFound" /\ op = "GET_poll" -> 404
    [] OTHER -> 500

\* GET /api/polls/{id}: prisma.poll.findUnique, no authentication
GET_poll(user, id, fail) ==
  /\ Ready
  /\ LET result == IF fail THEN "ServerError"
                   ELSE IF id \notin DOMAIN polls THEN "NotFound"
                   ELSE "Success"
     IN last' = Result(PollCall("GET_poll", user, id), result)
  /\ UNCHANGED <<store, req, succeeded, removed, tallyVars, authVars, uiVars>>

\* prisma.poll.update({ where: { id, creatorId } }) rejects: storage failure
\* or no such row
PollUpdateThrows(id, user, fail) == fail \/ ~PollOwnedBy(id, user)

\* PUT /api/polls/{id}: auth.getUser, schema.safeParse, prisma.poll.update
PUT_poll(user, id, question, options, fail) ==
  /\ Ready
  /\ LET result == IF user = NoUser THEN "Unauthorized"
                   ELSE IF ~apiPollSchema(question, options) THEN "ValidationErrors"
                   ELSE IF PollUpdateThrows(id, user, fail) THEN "ServerError"
                   ELSE "Success"
     IN /\ last' = Result(PollCall("PUT_poll", user, id), result)
        /\ polls' = IF result = "Success" /\ id \in DOMAIN polls
                    THEN [polls EXCEPT ![id] = PollAfterUpdate(polls[id], question,
                                                            options)]
                    ELSE polls
  /\ UNCHANGED <<votes, nextPollId, nextVoteId, req, succeeded, removed, tallyVars, authVars, uiVars>>

\* DELETE /api/polls/{id}: auth.getUser, prisma.poll.delete
DELETE_poll(user, id, fail) ==
  /\ Ready
  /\ LET result == IF user = NoUser THEN "Unauthorized"
                   ELSE IF PollDeleteThrows(id, user, fail) THEN "ServerError"
                   ELSE "Success"
     IN /\ last' = Result(PollCall("DELETE_poll", user, id), result)
        /\ polls' = IF result = "Success"
                    THEN [k \in DOMAIN polls \ {id} |-> polls[k]]
                    ELSE polls
  /\ UNCHANGED <<votes, nextPollId, nextVoteId, req, succeeded, removed, tallyVars, authVars, uiVars>>

(* ------------------------------- signup -------------------------------- *)
\* signupSchema: email is an e-mail address, password has 6 characters or more
signupSchema(email, password) ==
  /\ email \in {"a@x.io", "b@x.io"}
  /\ password \in {"secret"}

\* the record of a returned signup
SignupResult(email, identity, result) ==
  [op |-> "signup", email |-> email, identity |-> identity, result |-> result]

\* the User table after prisma.user.create
UsersAfterCreateNothingStored(row, throws) == users
UsersAfterCreate(row, throws) == IF throws THEN users ELSE users \cup {row}

\* signup, up to prisma.user.create: validateSchema, supabase.auth.signUp;
\* without a user record the action goes on to redirect(), whose
\* control-transfer error the catch turns into the server-error FormState
signup_call(email, password, outcome) ==
  /\ Ready /\ su = NoSignup
  /\ IF ~signupSchema(email, password)
     THEN /\ last' = SignupResult(email, 0, "ValidationErrors")
          /\ UNCHANGED <<identities, su>>
     ELSE IF outcome = "throws"
     THEN /\ last' = SignupResult(email, 0, "ServerError")
          /\ UNCHANGED <<identities, su>>
     ELSE IF outcome = "error"
     THEN /\ last' = SignupResult(email, 0, "ProviderError")
          /\ UNCHANGED <<identities, su>>
     ELSE /\ Cardinality(identities) < MaxIdentities
          /\ LET id == Cardinality(identities) + 1 IN
               /\ identities' = identities \cup {[id |-> id, email |-> email]}
               /\ IF outcome = "user"
                  THEN /\ su' = [pc |-> "createUser", id |-> id, email |-> email]
                       /\ UNCHANGED last
                  ELSE /\ last' = SignupResult(email, id, "ServerError")
                       /\ UNCHANGED su
  /\ UNCHANGED <<store, req, succeeded, removed, tallyVars, users, uiVars>>

\* prisma.user.create({ data: { id, email } }) and its own try/catch
signup_createUser(fail) ==
  /\ Ready /\ su # NoSignup
  /\ LET row == [id |-> su.id, email |-> su.email]
         throws == fail \/ \E u \in users : u.id = row.id
     IN /\ users' = UsersAfterCreate(row, throws)
        /\ last' = SignupResult(su.email, su.id,
                                IF throws THEN "ProfileError" ELSE "Success")
  /\ su' = NoSignup
  /\ UNCHANGED <<store, req, succeeded, removed, tallyVars, identities, uiVars>>

\* the record of a returned registration of the AuthForm
RegisterResult(email, identity, result) ==
  [op |-> "onRegisterSubmit", email |-> email, identity |-> identity,
   result |-> result]

\* AuthForm.onRegisterSubmit, called by form.handleSubmit with values that
\* pass formSchema: supabase.auth.signUp from the browser, and nothing else
onRegisterSubmit(email, password, signUpError) ==
  /\ Ready /\ su = NoSignup
  /\ signupSchema(email, password)
  /\ IF signUpError
     THEN /\ last' = RegisterResult(email, 0, "ProviderError")
          /\ UNCHANGED identities
     ELSE /\ Cardinality(identities) < MaxIdentities
          /\ LET id == Cardinality(identities) + 1 IN
               /\ identities' = identities \cup {[id |-> id, email |-> email]}
               /\ last' = RegisterResult(email, id, "Success")
  /\ UNCHANGED <<store, req, succeeded, removed, tallyVars, users, su, uiVars>>

(* --------------------------- specification ----------------------------- *)
\* the caller has seen the result of the call that returned
seeResult ==
  /\ last # NoResult
  /\ last' = NoResult
  /\ UNCHANGED <<store, req, succeeded, removed, tallyVars, authVars, uiVars>>

Next ==
  \/ \E r \in Reqs, u \in Callers, p \in PollIdInputs, o \in VoteChoices :
       submitVote_call(r, u, p, o)
  \/ \E r \in Reqs, u \in Callers, p \in PollIds, o \in VoteBodies :
       POST_vote_call(r, u, p, o)
  \/ \E r \in Reqs, fail \in BOOLEAN : submitVote_findPoll(r, fail)
  \/ \E r \in Reqs, fail \in BOOLEAN : submitVote_findVote(r, fail)
  \/ \E r \in Reqs, fail \in BOOLEAN : submitVote_create(r, fail)
  \/ \E r \in Reqs, u \in Callers, p \in PollIds : removeVote_call(r, u, p)
  \/ \E r \in Reqs, fail \in BOOLEAN : removeVote_find(r, fail)
  \/ \E r \in Reqs, fail \in BOOLEAN : removeVote_delete(r, fail)
  \/ \E u \in PollCreators, f \in PollForms, fail \in BOOLEAN :
       createPoll(u, f.question, f.options, fail)
  \/ \E u \in Callers, p \in PollIds, f \in PollForms, fail \in BOOLEAN :
       updatePoll(u, p, f.question, f.options, fail)
  \/ \E u \in Callers, p \in PollIds, fail \in BOOLEAN : deletePoll(u, p, fail)
  \/ seeResult

Spec == Init /\ [][Next]_vars

(* ------------- poll management, with one vote submission at a time ---- *)
\* the server actions and the API routes that create, change and delete
\* polls, and vote submissions through POST /api/polls/{id}/vote that run
\* one at a time in the first slot
NextPolls ==
  \/ \E u \in PollCreators, f \in PollForms, fail \in BOOLEAN :
       createPoll(u, f.question, f.options, fail)
  \/ \E u \in PollCreators, f \in PollForms, fail \in BOOLEAN :
       POST_polls(u, f.question, f.options, fail)
  \/ \E u \in PollCreators, f \in PollForms, fail \in BOOLEAN :
       createPoll_legacy(u, f.question, f.options, fail)
  \/ \E u \in Callers, p \in PollIds, f \in PollForms, fail \in BOOLEAN :
       updatePoll(u, p, f.question, f.options, fail)
  \/ \E u \in Callers, p \in PollIds, fail \in BOOLEAN : GET_poll(u, p, fail)
  \/ \E u \in Callers, p \in PollIds, f \in PollForms, fail \in BOOLEAN :
       PUT_poll(u, p, f.question, f.options, fail)
  \/ \E u \in Callers, p \in PollIds, fail \in BOOLEAN : deletePoll(u, p, fail)
  \/ \E u \in Callers, p \in PollIds, fail \in BOOLEAN : DELETE_poll(u, p, fail)
  \/ \E u \in Callers, p \in PollIds, o \in VoteBodies :
       POST_vote_call("r1", u, p, o)
  \/ \E fail \in BOOLEAN : submitVote_findPoll("r1", fail)
  \/ \E fail \in BOOLEAN : submitVote_findVote("r1", fail)
  \/ \E fail \in BOOLEAN : submitVote_create("r1", fail)
  \/ seeResult

SpecPolls == Init /\ [][NextPolls]_vars

(* ------------------------------ signing up ---------------------------- *)
NextAuth ==
  \/ \E e \in Emails, pw \in Passwords, o \in SignUpOutcomes :
       signup_call(e, pw, o)
  \/ \E fail \in BOOLEAN : signup_createUser(fail)
  \/ \E e \in Emails, pw \in Passwords, signUpError \in BOOLEAN :
       onRegisterSubmit(e, pw, signUpError)
  \/ seeResult

SpecAuth == Init /\ [][NextAuth]_vars

(* ------------------------ the tally on its own ------------------------- *)
TallyVoteLists ==
  UNION {[1..n -> [selectedOption : TallyChoices]] : n \in 0..MaxTallyVotes}

InitTally ==
  /\ polls = <<>>
  /\ votes = <<>>
  /\ nextPollId = 1
  /\ nextVoteId = 1
  /\ req = [r \in Reqs |-> Idle]
  /\ last = NoResult
  /\ succeeded = {}
  /\ removed = {}
  /\ tOptions \in TallyOptionLists
  /\ tVotes \in TallyVoteLists
  /\ tOut = NoTally
  /\ tGet = NoTally
  /\ tStats = NoTally
  /\ identities = {}
  /\ users = {}
  /\ su = NoSignup
  /\ served = NoVotesYet
  /\ pollVoting = PollVoting(served, FALSE, Undefined)

applyTally ==
  /\ tOut = NoTally
  /\ tOut' = Tally(tOptions, tVotes)
  /\ UNCHANGED <<store, req, last, succeeded, removed, tOptions, tVotes, tGet, tStats,
                 authVars, uiVars>>

applyGetTally ==
  /\ tGet = NoTally
  /\ tGet' = GET_tally(tOptions, tVotes)
  /\ UNCHANGED <<store, req, last, succeeded, removed, tOptions, tVotes, tOut, tStats,
                 authVars, uiVars>>

applyVoteStatistics ==
  /\ tStats = NoTally
  /\ tStats' = VoteStatistics(tOptions, tVotes)
  /\ UNCHANGED <<store, req, last, succeeded, removed, tOptions, tVotes, tOut, tGet,
                 authVars, uiVars>>

NextTally == applyTally \/ applyGetTally \/ applyVoteStatistics

SpecTally == InitTally /\ [][NextTally]_vars

(* ----------------------- the PollVoting component ----------------------- *)
\* the poll page is opened by a user who has or has not voted yet
InitVoting ==
  /\ polls = <<>>
  /\ votes = <<>>
  /\ nextPollId = 1
  /\ nextVoteId = 1
  /\ req = [r \in Reqs |-> Idle]
  /\ last = NoResult
  /\ succeeded = {}
  /\ removed = {}
  /\ tOptions = <<>>
  /\ tVotes = <<>>
  /\ tOut = NoTally
  /\ tGet = NoTally
  /\ tStats = NoTally
  /\ identities = {}
  /\ users = {}
  /\ su = NoSignup
  /\ \E o \in ShownOptions, voted \in BOOLEAN :
       /\ served = IF voted THEN OneMoreVote(NoVotesYet, o) ELSE NoVotesYet
       /\ pollVoting = PollVoting(served, voted, IF voted THEN o ELSE Undefined)

\* onClick of an option card; the cards are shown while hasVoted is false
setSelectedOption(option) ==
  /\ ~pollVoting.hasVoted
  /\ pollVoting' = [pollVoting EXCEPT !.selectedOption = option]
  /\ UNCHANGED <<store, req, last, succeeded, removed, tallyVars, authVars, served>>

\* the optimistic counts of handleVote: one more for the selected option
OptimisticCountsFromProps(c) ==
  [c.voteCounts EXCEPT ![c.selectedOption] = @ + 1]
OptimisticCounts(c) ==
  [c.optimisticVoteCounts EXCEPT ![c.selectedOption] = @ + 1]

\* handleVote up to startTransition; the button is shown while hasVoted is
\* false and enabled with an option selected and no request pending
handleVote ==
  /\ ~pollVoting.hasVoted
  /\ pollVoting.selectedOption # Null
  /\ ~pollVoting.isPending
  /\ pollVoting' = [pollVoting EXCEPT
       !.optimisticVoteCounts = OptimisticCounts(pollVoting),
       !.optimisticTotalVotes = @ + 1,
       !.hasVoted = TRUE,
       !.userVote = pollVoting.selectedOption,
       !.isPending = TRUE]
  /\ UNCHANGED <<store, req, last, succeeded, removed, tallyVars, authVars, served>>

\* the state after the revert of handleVote
Reverted(c) ==
  [c EXCEPT !.optimisticVoteCounts = c.voteCounts,
            !.optimisticTotalVotes = c.totalVotes,
            !.hasVoted = FALSE,
            !.userVote = Undefined,
            !.isPending = FALSE]

\* the transition of handleVote ends: submitVote has stored the vote and
\* revalidated the page, or returned a failure, or thrown
handleVote_settled(outcome) ==
  /\ pollVoting.isPending
  /\ IF outcome = "success"
     THEN /\ served.totalVotes < MaxServedVotes
          /\ served' = OneMoreVote(served, pollVoting.selectedOption)
          /\ pollVoting' = Rendered([pollVoting EXCEPT !.isPending = FALSE], served')
     ELSE /\ pollVoting' = Reverted(pollVoting)
          /\ UNCHANGED served
  /\ UNCHANGED <<store, req, last, succeeded, removed, tallyVars, authVars>>

\* another user's vote on the poll is stored
otherVote(option) ==
  /\ served.totalVotes < MaxServedVotes
  /\ served' = OneMoreVote(served, option)
  /\ UNCHANGED <<store, req, last, succeeded, removed, tallyVars, authVars, pollVoting>>

\* handleRefresh: router.refresh() renders the page again; the button is
\* disabled while a request is pending
handleRefresh ==
  /\ ~pollVoting.isPending
  /\ pollVoting' = Rendered(pollVoting, served)
  /\ UNCHANGED <<store, req, last, succeeded, removed, tallyVars, authVars, served>>

SettleOutcomes == {"success", "failure", "throws"}

NextVoting ==
  \/ \E o \in ShownOptions : setSelectedOption(o)
  \/ handleVote
  \/ \E outcome \in SettleOutcomes : handleVote_settled(outcome)
  \/ \E o \in ShownOptions : otherVote(o)
  \/ handleRefresh

SpecVoting == InitVoting /\ [][NextVoting]_vars

(* ------------------------------ claims --------------------------------- *)
\* a call returns in this step
Returned == last = NoResult /\ last' # NoResult
\* the call in slot r takes a step
Acts(r) == req'[r].pc # req[r].pc
\* the vote rows of a user on a poll
VotesBy(user, pollId) ==
  {i \in DOMAIN votes : votes[i].pollId = pollId /\ votes[i].userId = user}

\* C1: in every reachable state the stored votes hold at most one vote for
\* each (poll, voter) pair.
C1_OneVotePerUserPerPoll ==
  \A i, j \in DOMAIN votes :
    (votes[i].pollId = votes[j].pollId /\ votes[i].userId = votes[j].userId)
      => i = j

C3_ExactlyOneOfTwoConcurrent ==
  (/\ last.op \in VoteOps
   /\ last.result \in {"Success", "AlreadyVoted"}
   /\ ~last.afterSuccess
   /\ last.peer # "none")
    => ((last.result = "Success") # (last.peer = "Success"))

C6_SuccessAddsExactlyOneVote ==
  [][(Returned /\ last'.op = "submitVote" /\ last'.result = "Success")
       => /\ Len(votes') = Len(votes) + 1
          /\ SubSeq(votes', 1, Len(votes)) = votes
          /\ votes'[Len(votes')].pollId = last'.pollId
          /\ votes'[Len(votes')].userId = last'.user
          /\ votes'[Len(votes')].selectedOption = last'.option
          /\ \A i \in DOMAIN votes : votes[i].id # votes'[Len(votes')].id
          /\ polls' = polls]_vars

\* C6 witness: a submitVote returned success while another vote was stored.
C6_Witness ==
  /\ last.op = "submitVote"
  /\ last.result = "Success"
  /\ Len(votes) = 2

\* C7: a submitVote that returns a failure has left the stored votes and
\* polls as they were, in its last step and in every step before it.
C7_FailureChangesNothing ==
  [][/\ (Returned /\ last'.op = "submitVote" /\ last'.result # "Success")
          => (votes' = votes /\ polls' = polls)
     /\ \A r \in Reqs :
          (req[r].op = "submitVote" /\ Acts(r) /\ ~Returned)
            => (votes' = votes /\ polls' = polls)
     /\ \A r \in Reqs :
          (req[r].pc = "idle" /\ req'[r].op = "submitVote")
            => (votes' = votes /\ polls' = polls)]_vars

\* C7 witness: a submitVote returned ServerError.
C7_Witness ==
  /\ last.op = "submitVote"
  /\ last.result = "ServerError"

\* the number of votes in vs for option o
CountOf(vs, o) == Cardinality({i \in DOMAIN vs : vs[i].selectedOption = o})

\* C8: the tally has exactly the poll's options as keys, maps each option to
\* the number of votes that selected it and reports the number of votes as
\* the total; options <<Red, Blue, Green>> with votes Red, Blue, Red give
\* Red 2, Blue 1, Green 0 and total 3.
C8_TallyCountsVotesPerOption ==
  tOut # NoTally =>
    /\ DOMAIN tOut.voteCounts = Range(tOptions)
    /\ \A o \in Range(tOptions) : tOut.voteCounts[o] = CountOf(tVotes, o)
    /\ tOut.totalVotes = Len(tVotes)
    /\ (/\ tOptions = <<"Red", "Blue", "Green">>
        /\ tVotes = <<[selectedOption |-> "Red"], [selectedOption |-> "Blue"],
                      [selectedOption |-> "Red"]>>)
         => /\ tOut.voteCounts["Red"] = 2
            /\ tOut.voteCounts["Blue"] = 1
            /\ tOut.voteCounts["Green"] = 0
            /\ tOut.totalVotes = 3

\* C8 witness: the tally of the example was computed.
C8_Witness ==
  /\ tOut # NoTally
  /\ tOptions = <<"Red", "Blue", "Green">>
  /\ tVotes = <<[selectedOption |-> "Red"], [selectedOption |-> "Blue"],
                [selectedOption |-> "Red"]>>

\* C9: for every stored poll the per-option counts of its tally add up to the
\* number of votes stored for the poll.
C9_TallySumIsVoteCount ==
  \A p \in DOMAIN polls :
    SumCounts(getPollWithVotes(p).voteCounts) = Len(VotesOf(p))

\* C10: deletePoll by the creator of a poll that has votes succeeds and
\* leaves neither the poll nor any of its votes stored.
C10_DeleteCascadesToVotes ==
  [][(/\ Returned
      /\ last'.op = "deletePoll"
      /\ PollOwnedBy(last'.pollId, last'.user)
      /\ VotesOf(last'.pollId) # <<>>)
       => /\ last'.result = "Success"
          /\ last'.pollId \notin DOMAIN polls'
          /\ \A i \in DOMAIN votes' : votes'[i].pollId # last'.pollId]_vars

\* C11: in every reachable state every stored vote references a stored poll,
\* also when a poll is deleted while a vote submission on it is in flight.
C11_NoOrphanedVotes ==
  \A i \in DOMAIN votes : votes[i].pollId \in DOMAIN polls

\* C11 witness: a vote submission found its poll, the poll was deleted, and
\* the insert was turned down.
C11_Witness ==
  /\ last.op \in VoteOps
  /\ last.at = "create"
  /\ last.result = "ServerError"
  /\ last.pollId \notin DOMAIN polls

\* the calls that change or delete a poll
PollChangeOps == {"updatePoll", "PUT_poll", "deletePoll", "DELETE_poll"}
\* the caller of the returned call is not the creator of the poll it names
NotCreator(call) ==
  call.pollId \in DOMAIN polls => polls[call.pollId].creatorId # call.user

\* C12: updatePoll, PUT /api/polls/{id}, deletePoll and DELETE /api/polls/{id}
\* issued by a caller without identity or by a user who is not the poll's
\* creator report a failure and leave every poll and every vote unchanged.
C12_OnlyCreatorChangesPoll ==
  [][(Returned /\ last'.op \in PollChangeOps /\ NotCreator(last'))
       => /\ last'.result \in {"Unauthorized", "ValidationErrors", "ServerError"}
          /\ last'.user = NoUser => last'.result = "Unauthorized"
          /\ polls' = polls
          /\ votes' = votes]_vars

\* C12 witness: a user who is not the creator tried to change a poll that has
\* a vote and was turned down.
C12_Witness ==
  /\ last.op = "PUT_poll"
  /\ last.user = "u2"
  /\ last.pollId \in DOMAIN polls
  /\ last.result = "ServerError"
  /\ \E i \in DOMAIN votes : votes[i].pollId = last.pollId

\* the calls that create a poll
PollCreateOps == {"createPoll", "POST_polls", "createPoll_legacy"}

\* C13: a poll row appears only in the step in which a createPoll (of either
\* actions module) or a POST /api/polls by a caller with an identity returns success, and its
\* creator is that caller; the creator of a stored poll never changes; a
\* call without identity returns the unauthorized failure and stores nothing.
C13_PollStoredOnlyByAuthenticatedCreate ==
  [][/\ \A id \in DOMAIN polls' \ DOMAIN polls :
          /\ Returned
          /\ last'.op \in PollCreateOps
          /\ last'.result = "Success"
          /\ last'.user \in Users
          /\ last'.pollId = id
          /\ polls'[id].creatorId = last'.user
     /\ \A id \in DOMAIN polls' \cap DOMAIN polls :
          polls'[id].creatorId = polls[id].creatorId
     /\ (Returned /\ last'.op \in PollCreateOps /\ last'.user = NoUser)
          => (last'.result = "Unauthorized" /\ polls' = polls)]_vars

\* C13 witness: a poll created through POST /api/polls is stored with its
\* caller as creator.
C13_Witness ==
  /\ last.op = "POST_polls"
  /\ last.result = "Success"
  /\ last.pollId \in DOMAIN polls
  /\ polls[last.pollId].creatorId = last.user

\* C14: POST /api/polls/{id}/vote answers 401 without an authenticated user,
\* 400 when the body fails validation or the option is not an option of the
\* poll, 404 when the poll does not exist, 409 when the user already has a
\* vote on the poll, 500 on a storage error and 201 otherwise, each decided
\* on what the handler has just read; a vote row is added exactly when the
\* status is 201.
C14_PostVoteStatus ==
  [][(Returned /\ last'.op = "POST_vote")
       => LET status == HttpStatus(last'.op, last'.result)
              call == last'
              badBody == call.option \in {NoOption, BadJson}
          IN /\ (Len(votes') = Len(votes) + 1) <=> (status = 201)
             /\ votes' # votes => Len(votes') = Len(votes) + 1
             /\ call.at = "idle"
                  => \/ call.user = NoUser /\ status = 401
                     \/ call.user # NoUser /\ badBody /\ status = 400
             /\ call.at # "idle" => (call.user # NoUser /\ ~badBody)
             /\ call.at = "findPoll"
                  => \/ status = 500
                     \/ call.pollId \notin DOMAIN polls /\ status = 404
                     \/ /\ call.pollId \in DOMAIN polls
                        /\ call.option \notin Range(polls[call.pollId].options)
                        /\ status = 400
             /\ call.at = "findVote"
                  => \/ status = 500
                     \/ VotesBy(call.user, call.pollId) # {} /\ status = 409
             /\ call.at = "create" => status \in {201, 500}]_vars

\* the server actions of the model
ServerActions == {"createPoll", "createPoll_legacy", "updatePoll", "deletePoll",
                  "submitVote", "removeVote"}

\* C15: no server action ends in an uncaught fault: every failure is returned
\* as a structured result.
C15_NoUncaughtFault ==
  last.op \in ServerActions => last.result # "Fault"

\* C16: an updatePoll that has stored the new question and options does not
\* return a failure FormState: it ends in the redirect to the polls page.
C16_UpdateEndsInRedirect ==
  [][(Returned /\ last'.op = "updatePoll" /\ polls' # polls)
       => last'.result \notin {"Unauthorized", "ValidationErrors", "ServerError"}]_vars

\* a signup returns in this step
SignupReturned == Returned /\ last'.op = "signup"

\* C17: signup returns validate: true exactly when, after the identity
\* provider accepted the sign-up, it stored a User row with the new
\* identity's id and e-mail; when storing the row fails it returns
\* validate: false, and it stores no other row.
C17_SignupSuccessIffUserStored ==
  [][SignupReturned
       => LET row == [id |-> last'.identity, email |-> last'.email] IN
            /\ (last'.result = "Success")
                 <=> (row \in identities /\ row \notin users /\ row \in users')
            /\ users' \in {users, users \cup {row}}]_vars

\* C17 witness: a signup returned validate: true and its User row is stored.
C17_Witness ==
  /\ last.op = "signup"
  /\ last.result = "Success"
  /\ [id |-> last.identity, email |-> last.email] \in users

\* C18: whenever a vote row is inserted, its selected option is a member of
\* the options its poll has at that moment.
C18_OptionValidAtInsert ==
  [][Len(votes') = Len(votes) + 1
       => LET row == votes'[Len(votes')] IN
            /\ row.pollId \in DOMAIN polls
            /\ row.selectedOption \in Range(polls[row.pollId].options)]_vars

\* the tally of poll p read right before and right after a step that changes
\* the votes of option o by delta: the count of o and the total move by
\* delta, every other count stays
TallyMovesBy(p, o, delta) ==
  LET before == getPollWithVotes(p)
      after == IF p \notin DOMAIN polls' THEN NoTally
               ELSE Tally(polls'[p].options,
                          SelectSeq(votes', LAMBDA v : v.pollId = p))
  IN /\ before.found /\ after.found
     /\ DOMAIN after.voteCounts = DOMAIN before.voteCounts
     /\ o \in DOMAIN before.voteCounts
     /\ after.voteCounts[o] = before.voteCounts[o] + delta
     /\ after.totalVotes = before.totalVotes + delta
     /\ \A x \in DOMAIN before.voteCounts \ {o} :
          after.voteCounts[x] = before.voteCounts[x]

\* C19: a tally read right after a successful vote for option O on poll P has
\* the count of O and totalVotes one higher than a read right before it and
\* every other count unchanged; after a successful removeVote, one lower.
C19_TallyFollowsVotes ==
  [][/\ (Returned /\ last'.op \in VoteOps /\ last'.result = "Success")
          => TallyMovesBy(last'.pollId, last'.option, 1)
     /\ (Returned /\ last'.op = "removeVote" /\ last'.result = "Success")
          => \A i \in DOMAIN votes :
               (\A j \in DOMAIN votes' : votes'[j].id # votes[i].id)
                 => TallyMovesBy(last'.pollId, votes[i].selectedOption, -1)]_vars

\* C20: right after a removeVote by U on P has returned success, U has no
\* vote on P: hasUserVoted is false and getUserVote is null.
C20_NoVoteAfterRemove ==
  (last.op = "removeVote" /\ last.result = "Success")
    => /\ ~hasUserVoted(last.pollId, last.user, FALSE)
       /\ getUserVote(last.pollId, last.user, FALSE) = {Null}

\* votes with the row at position i taken out
VotesExcept(i) == [k \in 1..(Len(votes) - 1) |-> IF k < i THEN votes[k] ELSE votes[k + 1]]

\* C21: a removeVote by U on P that returns success has deleted exactly one
\* vote row, a vote of U on P, and no other row; one that returns a failure,
\* as it does without identity or when it finds no vote of U on P, has left
\* the votes unchanged; removeVote never changes a poll.
C21_RemoveVoteDeletesOwnVoteOnly ==
  [][/\ (Returned /\ last'.op = "removeVote")
          => /\ polls' = polls
             /\ IF last'.result = "Success"
                THEN \E i \in DOMAIN votes :
                       /\ votes[i].userId = last'.user
                       /\ votes[i].pollId = last'.pollId
                       /\ votes' = VotesExcept(i)
                ELSE votes' = votes
             /\ last'.user = NoUser => last'.result = "Unauthorized"
             /\ (last'.at = "rmFind" /\ VotesBy(last'.user, last'.pollId) = {})
                  => last'.result \in {"NoVote", "ServerError"}
     /\ \A r \in Reqs :
          (req[r].op = "removeVote" /\ Acts(r) /\ ~Returned)
            => (votes' = votes /\ polls' = polls)]_vars

\* C21 witness: a removeVote returned success and the vote of another user is
\* still stored.
C21_Witness ==
  /\ last.op = "removeVote"
  /\ last.result = "Success"
  /\ \E i \in DOMAIN votes : votes[i].userId # last.user

\* the calls that edit a poll
PollEditOps == {"updatePoll", "PUT_poll"}

PollFormActions == {"createPoll", "createPoll_legacy", "updatePoll"}
\* no string is at two positions of the sequence
NoRepeats(options) ==
  \A i, j \in DOMAIN options : options[i] = options[j] => i = j

\* C23: a createPoll or updatePoll server action never stores a poll whose
\* options hold the same string at two positions.
C23_ActionsStoreNoRepeatedOption ==
  [][(/\ Returned
      /\ last'.op \in PollFormActions
      /\ polls' # polls
      /\ last'.pollId \in DOMAIN polls')
       => NoRepeats(polls'[last'.pollId].options)]_vars

\* C24: every stored poll has a non-empty question and at least two options,
\* none of which is the empty string.
C24_StoredPollsWellFormed ==
  \A id \in DOMAIN polls :
    /\ polls[id].question # ""
    /\ Len(polls[id].options) >= 2
    /\ \A i \in DOMAIN polls[id].options : polls[id].options[i] # ""

\* C25: a request of an authenticated caller to GET, PUT or DELETE
\* /api/polls/{id} or to POST /api/polls/{id}/vote that passes the checks made
\* before the poll is looked up, meets no storage failure and names a poll
\* that is not stored is answered with 404 and changes no poll and no vote.
C25_MissingPollIs404 ==
  [][\A u \in Users, p \in PollIds :
       p \notin DOMAIN polls =>
         /\ GET_poll(u, p, FALSE)
              => PollRouteStatus(last'.op, last'.result) = 404
         /\ \A f \in PollForms :
              (apiPollSchema(f.question, f.options)
                 /\ PUT_poll(u, p, f.question, f.options, FALSE))
                => /\ PollRouteStatus(last'.op, last'.result) = 404
                   /\ UNCHANGED <<polls, votes>>
         /\ DELETE_poll(u, p, FALSE)
              => /\ PollRouteStatus(last'.op, last'.result) = 404
                 /\ UNCHANGED <<polls, votes>>
         /\ (/\ req["r1"].op = "POST_vote"
             /\ req["r1"].user = u
             /\ req["r1"].pollId = p
             /\ submitVote_findPoll("r1", FALSE))
              => /\ HttpStatus(last'.op, last'.result) = 404
                 /\ UNCHANGED <<polls, votes>>]_vars

\* C26: when the user submits option O in PollVoting, the displayed count of O
\* and the displayed total become the server-provided values plus one and
\* hasVoted is true while the request is pending; when submitVote returns a
\* failure or throws, the displayed counts and total are the server-provided
\* values again and hasVoted and userVote are reset; when it succeeds the
\* optimistic values are kept.
C26_OptimisticUpdate ==
  [][/\ handleVote
          => /\ pollVoting'.optimisticVoteCounts = OptimisticCountsFromProps(pollVoting)
             /\ pollVoting'.optimisticTotalVotes = pollVoting.totalVotes + 1
             /\ pollVoting'.hasVoted /\ pollVoting'.isPending
     /\ (handleVote_settled("failure") \/ handleVote_settled("throws"))
          => /\ pollVoting'.optimisticVoteCounts = pollVoting.voteCounts
             /\ pollVoting'.optimisticTotalVotes = pollVoting.totalVotes
             /\ ~pollVoting'.hasVoted
             /\ pollVoting'.userVote = Undefined
     /\ handleVote_settled("success")
          => /\ pollVoting'.optimisticVoteCounts = pollVoting.optimisticVoteCounts
             /\ pollVoting'.optimisticTotalVotes = pollVoting.optimisticTotalVotes
             /\ pollVoting'.hasVoted]_vars

\* C27: for every identity and every poll, hasUserVoted is true exactly when
\* getUserVote is not null, whichever row the lookup picks, also for a vote
\* whose selected option is the empty string.
C27_HasVotedIffUserVote ==
  \A u \in Users, p \in PollIds :
    \A userVote \in getUserVote(p, u, FALSE) :
      hasUserVoted(p, u, FALSE) <=> (userVote # Null)

\* C28: getPollWithVotes, GET /api/polls/{id} and getVoteStatistics return
\* the same count for every option and the same total for the same options
\* and the same votes.
C28_ThreeTalliesAgree ==
  (tOut # NoTally /\ tGet # NoTally /\ tStats # NoTally)
    => /\ tGet.voteCounts = tOut.voteCounts
       /\ tStats.votesPerOption = tOut.voteCounts
       /\ tGet.totalVotes = tOut.totalVotes
       /\ tStats.totalVotes = tOut.totalVotes

\* the three have run on options with a repeated entry and votes of which
\* one is for a string that is not an option
C28_Witness ==
  /\ tOut # NoTally /\ tGet # NoTally /\ tStats # NoTally
  /\ ~NoRepeats(tOptions)
  /\ \E i \in DOMAIN tVotes : tVotes[i].selectedOption \notin Range(tOptions)
  /\ \E o \in DOMAIN tOut.voteCounts : tOut.voteCounts[o] >= 2

\* C29: whenever no sign-up is in flight, every account of the identity
\* provider that a sign-up created has a User row with the same id.
C29_EveryIdentityHasUserRow ==
  su = NoSignup => \A a \in identities : \E u \in users : u.id = a.id

====
